---------------------------- MODULE Spec2Model ----------------------------
(***************************************************************************)
(* Model of transitions_kpi.py: parse_jira_info folds the tickets read     *)
(* from states.json into four (total, count) accumulators and then calls   *)
(* print_time_spent once per metric.                                       *)
(*                                                                         *)
(* A Python dict is a TLA+ function whose DOMAIN is the set of keys that   *)
(* are present.  A datetime.timedelta is the normalized record             *)
(* [days, seconds, microseconds] that CPython stores.  Printed lines are   *)
(* records appended to out.                                                *)
(***************************************************************************)
EXTENDS Integers, Sequences, FiniteSets, TLC

VARIABLES tickets, debug, pretty, i, pc, call,
          triage_time_spent, eng_time_spent, backlog_time, product_time,
          num_tickets, backlog_tickets, product_tickets, out

accs == <<triage_time_spent, eng_time_spent, backlog_time, product_time,
          num_tickets, backlog_tickets, product_tickets>>

vars == <<tickets, debug, pretty, i, pc, call, triage_time_spent,
          eng_time_spent, backlog_time, product_time, num_tickets,
          backlog_tickets, product_tickets, out>>

\* Longest tickets list read from states.json.
MaxTickets == 2

EmptyDict == [k \in {} |-> 0]

-----------------------------------------------------------------------------
(* datetime.timedelta *)

\* timedelta(days=d, seconds=s): the constructor carries whole days out of
\* the seconds, so that 0 <= seconds < 86400.
timedelta(d, s) ==
    [days |-> d + (s \div 86400), seconds |-> s % 86400, microseconds |-> 0]

\* timedelta.__add__
td_add(a, b) ==
    LET us == a.microseconds + b.microseconds
        s  == a.seconds + b.seconds + (us \div 1000000)
    IN  [days         |-> a.days + b.days + (s \div 86400),
         seconds      |-> s % 86400,
         microseconds |-> us % 1000000]

\* timedelta / int under Python 2 (no "from __future__ import division"):
\* the floor of the total number of microseconds divided by n, renormalized.
\* The long division below is digit by digit in the mixed radix
\* (days, seconds, microseconds), which yields that floor exactly.
td_div(a, n) ==
    LET qd == a.days \div n
        s  == (a.days % n) * 86400 + a.seconds
        qs == s \div n
        us == (s % n) * 1000000 + a.microseconds
        qu == us \div n
    IN  [days         |-> qd + (qs \div 86400),
         seconds      |-> qs % 86400,
         microseconds |-> qu]

\* timedelta.__nonzero__: timedelta(0) is the only falsy duration.
td_bool(a) == a.days # 0 \/ a.seconds # 0 \/ a.microseconds # 0

-----------------------------------------------------------------------------
(* Helpers of parse_jira_info *)

EDX_ENGINEERING_STATES ==
    {"Needs Triage", "Product Review", "Community Manager Review",
     "Awaiting Prioritization", "Engineering Review"}

RECURSIVE SumEngineering(_, _)
SumEngineering(state_dict, keys) ==
    IF keys = {} THEN timedelta(0, 0)
    ELSE LET state == CHOOSE k \in keys : TRUE
             rest  == SumEngineering(state_dict, keys \ {state})
         IN  IF state \in EDX_ENGINEERING_STATES
             THEN td_add(rest, state_dict[state])
             ELSE rest

engineering_time_spent(state_dict) ==
    SumEngineering(state_dict, DOMAIN state_dict)

\* Variant: state_dict.get(state, timedelta(0)), which never raises.
single_state_time_spent_default(state_dict, state) ==
    IF state \in DOMAIN state_dict
    THEN [ok |-> TRUE, value |-> state_dict[state]]
    ELSE [ok |-> TRUE, value |-> timedelta(0, 0)]

\* state_dict[state]: a missing key raises KeyError (ok = FALSE).
single_state_time_spent(state_dict, state) ==
    IF state \in DOMAIN state_dict
    THEN [ok |-> TRUE, value |-> state_dict[state]]
    ELSE [ok |-> FALSE]

sanitize_ticket_states(state_dict) ==
    [state \in DOMAIN state_dict |->
        timedelta(state_dict[state][1], state_dict[state][2])]

\* ticket.get(key, False) used as a condition, for a string-valued key.
GetStr(ticket, key) == key \in DOMAIN ticket /\ ticket[key] # ""

\* ticket.get('states', False) used as a condition: an empty dict is falsy.
HasStates(ticket) ==
    "states" \in DOMAIN ticket /\ DOMAIN ticket["states"] # {}

\* Variant: "state in d", which a zero duration satisfies too.
GetDuration_key_only(state_dict, state) == state \in DOMAIN state_dict

\* d.get(state, False) used as a condition on a sanitized state dict.
GetDuration(state_dict, state) ==
    state \in DOMAIN state_dict /\ td_bool(state_dict[state])

\* Variant: the error line is printed under the debug option only.
TicketDiagnostics_debug_only(ticket, dbg) ==
    (IF dbg /\ GetStr(ticket, "error")
     THEN <<[kind |-> "error", issue |-> ticket["issue"],
             text |-> ticket["error"]]>>
     ELSE <<>>)
    \o
    (IF dbg /\ GetStr(ticket, "debug")
     THEN <<[kind |-> "debug", issue |-> ticket["issue"],
             text |-> ticket["debug"]]>>
     ELSE <<>>)

\* The lines printed at the top of the loop body.
TicketDiagnostics(ticket, dbg) ==
    (IF GetStr(ticket, "error")
     THEN <<[kind |-> "error", issue |-> ticket["issue"],
             text |-> ticket["error"]]>>
     ELSE <<>>)
    \o
    (IF dbg /\ GetStr(ticket, "debug")
     THEN <<[kind |-> "debug", issue |-> ticket["issue"],
             text |-> ticket["debug"]]>>
     ELSE <<>>)

\* Variant: "elif debug:".
NoStatesNotice_debug_only(ticket, dbg, prt) ==
    IF dbg
    THEN <<[kind |-> "nostates", issue |-> ticket["issue"]]>>
    ELSE <<>>

\* The elif branch of the loop body.
NoStatesNotice(ticket, dbg, prt) ==
    IF dbg \/ prt
    THEN <<[kind |-> "nostates", issue |-> ticket["issue"]]>>
    ELSE <<>>

\* The if branch of the loop body applied to the accumulators acc; ok = FALSE
\* when the 'Needs Triage' lookup raises, before anything is assigned.
Aggregate(acc, ticket) ==
    LET states == sanitize_ticket_states(ticket["states"])
        triage == single_state_time_spent(states, "Needs Triage")
        inBacklog == GetDuration(states, "Awaiting Prioritization")
        inProduct == GetDuration(states, "Product Review")
    IN  IF ~triage.ok THEN [ok |-> FALSE]
        ELSE [ok |-> TRUE,
              triage_time_spent |-> td_add(acc.triage_time_spent, triage.value),
              eng_time_spent    |-> engineering_time_spent(states),
              num_tickets       |-> acc.num_tickets + 1,
              backlog_time      |->
                  IF inBacklog
                  THEN td_add(acc.backlog_time,
                         single_state_time_spent(states,
                                                 "Awaiting Prioritization").value)
                  ELSE acc.backlog_time,
              backlog_tickets   |->
                  IF inBacklog THEN acc.backlog_tickets + 1
                  ELSE acc.backlog_tickets,
              product_time      |->
                  IF inProduct
                  THEN td_add(acc.product_time,
                         single_state_time_spent(states, "Product Review").value)
                  ELSE acc.product_time,
              product_tickets   |->
                  IF inProduct THEN acc.product_tickets + 1
                  ELSE acc.product_tickets]

\* Variant: "num_tickets += 1" outside the if, so every ticket is counted.
LoopBody_counts_every_ticket(acc, ticket, dbg, prt) ==
    IF HasStates(ticket)
    THEN LET r == Aggregate(acc, ticket)
         IN  IF r.ok
             THEN [ok |-> TRUE, acc |-> r,
                   lines |-> TicketDiagnostics(ticket, dbg)]
             ELSE [ok |-> FALSE, lines |-> TicketDiagnostics(ticket, dbg)]
    ELSE [ok |-> TRUE,
          acc |-> [acc EXCEPT !.num_tickets = @ + 1],
          lines |-> TicketDiagnostics(ticket, dbg)
                    \o NoStatesNotice(ticket, dbg, prt)]

\* Variant: a ticket with an error is reported and then skipped ("continue").
LoopBody_skips_errored(acc, ticket, dbg, prt) ==
    IF GetStr(ticket, "error")
    THEN [ok |-> TRUE, acc |-> acc, lines |-> TicketDiagnostics(ticket, dbg)]
    ELSE IF HasStates(ticket)
    THEN LET r == Aggregate(acc, ticket)
         IN  IF r.ok
             THEN [ok |-> TRUE, acc |-> r,
                   lines |-> TicketDiagnostics(ticket, dbg)]
             ELSE [ok |-> FALSE, lines |-> TicketDiagnostics(ticket, dbg)]
    ELSE [ok |-> TRUE, acc |-> acc,
          lines |-> TicketDiagnostics(ticket, dbg)
                    \o NoStatesNotice(ticket, dbg, prt)]

\* One iteration of the for loop: the accumulators and the lines printed.
\* Lines 109-115 only rewrite ticket['resolved']; the helpers receive it as
\* resolved_date and never read it, so it reaches no accumulator and no line.
LoopBody(acc, ticket, dbg, prt) ==
    IF HasStates(ticket)
    THEN LET r == Aggregate(acc, ticket)
         IN  IF r.ok
             THEN [ok |-> TRUE, acc |-> r,
                   lines |-> TicketDiagnostics(ticket, dbg)]
             ELSE [ok |-> FALSE, lines |-> TicketDiagnostics(ticket, dbg)]
    ELSE [ok |-> TRUE, acc |-> acc,
          lines |-> TicketDiagnostics(ticket, dbg)
                    \o NoStatesNotice(ticket, dbg, prt)]

\* Variant: the minutes taken from avg_time.seconds instead of the remainder.
print_time_spent_minutes_of_day(time_spent, ticket_count, message, prt) ==
    IF ticket_count = 0 THEN [ok |-> FALSE]
    ELSE LET avg_time  == td_div(time_spent, ticket_count)
             days      == avg_time.days
             hours     == avg_time.seconds \div 3600
             minutes   == avg_time.seconds \div 60
             seconds   == avg_time.seconds % 60
         IN  [ok |-> TRUE,
              lines |->
                <<[kind |-> "header", message |-> message,
                   count |-> ticket_count],
                  [kind |-> "value", pretty |-> prt, days |-> days,
                   hours |-> hours, minutes |-> minutes,
                   seconds |-> seconds]>>]

\* print_time_spent: ok = FALSE when the division raises ZeroDivisionError,
\* which happens before anything is printed.
print_time_spent(time_spent, ticket_count, message, prt) ==
    IF ticket_count = 0 THEN [ok |-> FALSE]
    ELSE LET avg_time  == td_div(time_spent, ticket_count)
             days      == avg_time.days
             hours     == avg_time.seconds \div 3600
             remainder == avg_time.seconds % 3600
             minutes   == remainder \div 60
             seconds   == remainder % 60
         IN  [ok |-> TRUE,
              lines |->
                <<[kind |-> "header", message |-> message,
                   count |-> ticket_count],
                  [kind |-> "value", pretty |-> prt, days |-> days,
                   hours |-> hours, minutes |-> minutes,
                   seconds |-> seconds]>>]

\* Variant: the product review call made before the backlog call.
ReportArgs_product_first(n) ==
    CASE n = 1 -> [time_spent |-> triage_time_spent, count |-> num_tickets,
                   message |-> "Average time spent in Needs Triage"]
      [] n = 2 -> [time_spent |-> eng_time_spent, count |-> num_tickets,
                   message |-> "Average time spent in edX engineering states"]
      [] n = 3 -> [time_spent |-> product_time, count |-> product_tickets,
                   message |-> "Average time spent in product review"]
      [] n = 4 -> [time_spent |-> backlog_time, count |-> backlog_tickets,
                   message |-> "Average time spent in team backlog"]

\* The four calls at the end of parse_jira_info, in program order.
ReportArgs(n) ==
    CASE n = 1 -> [time_spent |-> triage_time_spent, count |-> num_tickets,
                   message |-> "Average time spent in Needs Triage"]
      [] n = 2 -> [time_spent |-> eng_time_spent, count |-> num_tickets,
                   message |-> "Average time spent in edX engineering states"]
      [] n = 3 -> [time_spent |-> backlog_time, count |-> backlog_tickets,
                   message |-> "Average time spent in team backlog"]
      [] n = 4 -> [time_spent |-> product_time, count |-> product_tickets,
                   message |-> "Average time spent in product review"]

-----------------------------------------------------------------------------
(* The contents of states.json *)

ErrorField == {EmptyDict, "error" :> "", "error" :> "boom"}

DebugField == {EmptyDict, "debug" :> "retried"}

\* Serialized as [days, seconds] pairs.
StatesField ==
    { EmptyDict,
      "states" :> EmptyDict,
      "states" :> ("Needs Triage" :> <<0, 3600>>),
      "states" :> ("Needs Triage" :> <<0, 1830>>
                   @@ "Awaiting Prioritization" :> <<1, 0>>
                   @@ "Product Review" :> <<0, 1800>>
                   @@ "Engineering Review" :> <<0, 45>>),
      "states" :> ("Needs Triage" :> <<2, 31>>
                   @@ "Awaiting Prioritization" :> <<0, 0>>
                   @@ "Product Review" :> <<0, 90000>>
                   @@ "Merged" :> <<3, 0>>),
      "states" :> ("Awaiting Prioritization" :> <<1, 0>>) }

\* The n-th ticket of the file carries the issue id n.
TicketsWithIssue(n) ==
    { ("issue" :> n) @@ e @@ d @@ s :
          e \in ErrorField, d \in DebugField, s \in StatesField }

RECURSIVE TicketLists(_)
TicketLists(n) ==
    IF n = 0 THEN {<<>>}
    ELSE LET shorter == TicketLists(n - 1)
         IN  shorter \cup
             { Append(l, t) : l \in {x \in shorter : Len(x) = n - 1},
                              t \in TicketsWithIssue(n) }

-----------------------------------------------------------------------------
(* parse_jira_info *)

Init ==
    /\ tickets \in TicketLists(MaxTickets)
    /\ debug \in BOOLEAN
    /\ pretty \in BOOLEAN
    /\ i = 1
    /\ pc = IF tickets = <<>> THEN "report" ELSE "for"
    /\ call = 1
    /\ triage_time_spent = timedelta(0, 0)
    /\ eng_time_spent = timedelta(0, 0)
    /\ backlog_time = timedelta(0, 0)
    /\ product_time = timedelta(0, 0)
    /\ num_tickets = 0
    /\ backlog_tickets = 0
    /\ product_tickets = 0
    /\ out = <<>>

Acc ==
    [triage_time_spent |-> triage_time_spent,
     eng_time_spent    |-> eng_time_spent,
     backlog_time      |-> backlog_time,
     product_time      |-> product_time,
     num_tickets       |-> num_tickets,
     backlog_tickets   |-> backlog_tickets,
     product_tickets   |-> product_tickets]

\* One iteration of "for ticket in tickets".
ProcessTicket ==
    /\ pc = "for"
    /\ LET r == LoopBody(Acc, tickets[i], debug, pretty)
       IN  /\ out' = out \o r.lines
           /\ IF r.ok
              THEN /\ triage_time_spent' = r.acc.triage_time_spent
                   /\ eng_time_spent' = r.acc.eng_time_spent
                   /\ backlog_time' = r.acc.backlog_time
                   /\ product_time' = r.acc.product_time
                   /\ num_tickets' = r.acc.num_tickets
                   /\ backlog_tickets' = r.acc.backlog_tickets
                   /\ product_tickets' = r.acc.product_tickets
                   /\ i' = i + 1
                   /\ pc' = IF i = Len(tickets) THEN "report" ELSE "for"
              ELSE /\ pc' = "KeyError"
                   /\ UNCHANGED <<accs, i>>
    /\ UNCHANGED <<tickets, debug, pretty, call>>

\* One of the four print_time_spent calls.
Report ==
    /\ pc = "report"
    /\ LET a == ReportArgs(call)
           r == print_time_spent(a.time_spent, a.count, a.message, pretty)
       IN  IF r.ok
           THEN /\ out' = out \o r.lines
                /\ call' = call + 1
                /\ pc' = IF call = 4 THEN "done" ELSE "report"
           ELSE /\ pc' = "ZeroDivisionError"
                /\ UNCHANGED <<out, call>>
    /\ UNCHANGED <<tickets, debug, pretty, i, accs>>

Next == ProcessTicket \/ Report

Spec == Init /\ [][Next]_vars

-----------------------------------------------------------------------------
(* What the properties below read off the input and the output *)

FoldDone == pc \in {"report", "done", "ZeroDivisionError"}

\* The tickets whose loop iteration has started and ended (normally or not).
Visited == IF pc = "KeyError" THEN 1..i ELSE 1..(i - 1)

StatesOf(k) == tickets[k]["states"]

NonEmptyStates(k) ==
    "states" \in DOMAIN tickets[k] /\ DOMAIN StatesOf(k) # {}

\* Whole seconds of a serialized [days, seconds] pair and of a timedelta.
RawSecs(pair) == pair[1] * 86400 + pair[2]

Secs(td) == td.days * 86400 + td.seconds

RECURSIVE SetSum(_, _)
SetSum(f, S) ==
    IF S = {} THEN 0
    ELSE LET x == CHOOSE y \in S : TRUE IN f[x] + SetSum(f, S \ {x})

\* Seconds ticket k spent in state, 0 when it never was in that state.
RawIn(k, state) ==
    IF NonEmptyStates(k) /\ state \in DOMAIN StatesOf(k)
    THEN RawSecs(StatesOf(k)[state]) ELSE 0

EngineeringSecs(k) ==
    SetSum([s \in EDX_ENGINEERING_STATES |-> RawIn(k, s)],
           EDX_ENGINEERING_STATES)

LinesOf(kind, k) ==
    {j \in DOMAIN out : out[j].kind = kind /\ out[j].issue = k}

BlockKinds == {"header", "value"}

\* The value line printed by the n-th print_time_spent call, n < call.
ValueLine(n) == out[Len(out) - 2 * (call - 1) + 2 * n]

HeaderLine(n) == out[Len(out) - 2 * (call - 1) + 2 * n - 1]

-----------------------------------------------------------------------------
\* C1: once the fold is over, the engineering total is the sum, over every
\* ticket with non-empty states, of its durations in the five
\* engineering-owned states.
C1_EngineeringTotalAccumulates ==
    FoldDone =>
        Secs(eng_time_spent) =
            SetSum([k \in 1..Len(tickets) |-> EngineeringSecs(k)],
                   1..Len(tickets))

\* C2: a metric whose count is 0 when its report call is made gets a
\* "no data" line; the call neither raises ZeroDivisionError nor prints a
\* value line for it.
C2_ZeroCountFlagsNoData ==
    \A n \in 1..4 :
        (FoldDone /\ ReportArgs(n).count = 0
            /\ (call > n \/ (call = n /\ pc # "report")))
        => /\ pc # "ZeroDivisionError"
           /\ \E j \in DOMAIN out :
                 out[j].kind = "nodata"

\* C3 as stated: a ticket without a states field gets its "No states yet"
\* line exactly when the debug option is on, whatever the pretty option.
C3_NoticeFollowsDebugOnly ==
    \A k \in Visited :
        "states" \notin DOMAIN tickets[k] =>
            Cardinality(LinesOf("nostates", k)) = IF debug THEN 1 ELSE 0

\* C3 amended: a ticket without a states field gets its "No states yet" line
\* exactly when the debug option or the pretty option is on, and no such line
\* when both are off.
C3_NoticeFollowsDebugOrPretty ==
    \A k \in Visited :
        "states" \notin DOMAIN tickets[k] =>
            Cardinality(LinesOf("nostates", k)) =
                IF debug \/ pretty THEN 1 ELSE 0

C3_Witness ==
    /\ ~debug
    /\ pretty
    /\ \E k \in Visited :
          /\ "states" \notin DOMAIN tickets[k]
          /\ LinesOf("nostates", k) # {}

C5_NoStatesLeavesAccumulators ==
    [][(pc = "for" /\ ~NonEmptyStates(i)) => UNCHANGED accs]_vars

C5_Witness ==
    /\ i > 2
    /\ "states" \in DOMAIN tickets[i - 1]
    /\ DOMAIN StatesOf(i - 1) = {}
    /\ num_tickets = 1
    /\ backlog_tickets = 1

\* C6: every value line printed shows days, hours, minutes and seconds with
\* 0 <= hours < 24, 0 <= minutes < 60, 0 <= seconds < 60 and
\* days*86400 + hours*3600 + minutes*60 + seconds = floor(T / n) for the
\* total T and the count n of its metric, and print_time_spent yields the
\* same four numbers in the compact and in the pretty style.
C6_AverageDecomposition ==
    \A n \in 1..4 :
        LET a == ReportArgs(n)
            T == Secs(a.time_spent)
        IN  /\ n < call =>
                LET v == ValueLine(n)
                IN  /\ v.kind = "value"
                    /\ v.pretty = pretty
                    /\ v.hours \in 0..23
                    /\ v.minutes \in 0..59
                    /\ v.seconds \in 0..59
                    /\ v.days * 86400 + v.hours * 3600 + v.minutes * 60
                         + v.seconds = T \div a.count
            /\ (FoldDone /\ a.count >= 1) =>
                LET c == print_time_spent(a.time_spent, a.count,
                                          a.message, FALSE).lines[2]
                    p == print_time_spent(a.time_spent, a.count,
                                          a.message, TRUE).lines[2]
                IN  /\ ~c.pretty
                    /\ p.pretty
                    /\ <<c.days, c.hours, c.minutes, c.seconds>> =
                       <<p.days, p.hours, p.minutes, p.seconds>>

C6_Witness ==
    /\ pc = "done"
    /\ Secs(triage_time_spent) % num_tickets # 0
    /\ ValueLine(1).days >= 1
    /\ ValueLine(1).minutes >= 1
    /\ ValueLine(1).seconds >= 1
    /\ ValueLine(4).hours >= 1

\* C7: nothing but metric blocks follows a metric block; in a run that
\* completes, the lines before the blocks are the per-ticket diagnostics in
\* the order of the tickets (error, then debug or no-states notice, within a
\* ticket), and the blocks are the four metrics once each in the order
\* triage, engineering, backlog, product review.
DiagRank(line) ==
    CASE line.kind = "error"    -> 1
      [] line.kind = "debug"    -> 2
      [] line.kind = "nostates" -> 3

C7_DiagnosticsThenFourBlocks ==
    /\ \A a, b \in DOMAIN out :
          (a < b /\ out[a].kind \in BlockKinds) => out[b].kind \in BlockKinds
    /\ pc = "done" =>
          /\ Len(out) >= 8
          /\ \A a \in 1..(Len(out) - 8) :
                out[a].kind \in {"error", "debug", "nostates"}
          /\ \A a, b \in 1..(Len(out) - 8) :
                a < b =>
                    \/ out[a].issue < out[b].issue
                    \/ /\ out[a].issue = out[b].issue
                       /\ DiagRank(out[a]) < DiagRank(out[b])
          /\ <<HeaderLine(1).message, HeaderLine(2).message,
               HeaderLine(3).message, HeaderLine(4).message>> =
             <<"Average time spent in Needs Triage",
               "Average time spent in edX engineering states",
               "Average time spent in team backlog",
               "Average time spent in product review">>
          /\ \A n \in 1..4 :
                /\ HeaderLine(n).kind = "header"
                /\ ValueLine(n).kind = "value"

C7_Witness ==
    /\ pc = "done"
    /\ Len(out) = 12
    /\ out[1].kind = "error"
    /\ out[2].kind = "debug"
    /\ out[3].kind = "debug"
    /\ out[4].kind = "nostates"

\* C8: the iteration for a ticket with an error text and non-empty states
\* changes the totals and the counts as it would for the same ticket without
\* the error field, and prints the error line in addition to what that
\* ticket prints.
WithoutError(ticket) ==
    [key \in DOMAIN ticket \ {"error"} |-> ticket[key]]

LacksTriage(k) ==
    NonEmptyStates(k) /\ "Needs Triage" \notin DOMAIN StatesOf(k)

C9_MissingTriageFailsTheRun ==
    /\ \A k \in 1..(i - 1) : ~LacksTriage(k)
    /\ pc = "KeyError" =>
          /\ LacksTriage(i)
          /\ \A j \in DOMAIN out : out[j].kind \notin BlockKinds
          /\ Secs(triage_time_spent) =
                SetSum([k \in 1..(i - 1) |-> RawIn(k, "Needs Triage")],
                       1..(i - 1))
    /\ (\E k \in 1..Len(tickets) : LacksTriage(k)) =>
          /\ pc \in {"for", "KeyError"}
          /\ \A j \in DOMAIN out : out[j].kind \notin BlockKinds

C9_Witness ==
    /\ pc = "KeyError"
    /\ i = 2
    /\ num_tickets = 1
    /\ StatesOf(2) = ("Awaiting Prioritization" :> <<1, 0>>)

\* C10: the backlog count is the number of tickets folded so far whose
\* states hold 'Awaiting Prioritization' with a non-zero duration and the
\* backlog total is the sum of those durations; likewise the product count
\* and total for 'Product Review'.
Counted(state) ==
    {k \in 1..(i - 1) : RawIn(k, state) # 0}

C10_BacklogAndProductCounts ==
    /\ backlog_tickets = Cardinality(Counted("Awaiting Prioritization"))
    /\ Secs(backlog_time) =
          SetSum([k \in 1..(i - 1) |-> RawIn(k, "Awaiting Prioritization")],
                 Counted("Awaiting Prioritization"))
    /\ product_tickets = Cardinality(Counted("Product Review"))
    /\ Secs(product_time) =
          SetSum([k \in 1..(i - 1) |-> RawIn(k, "Product Review")],
                 Counted("Product Review"))
    /\ backlog_time.microseconds = 0
    /\ product_time.microseconds = 0

C10_Witness ==
    /\ FoldDone
    /\ Len(tickets) = 2
    /\ backlog_tickets = 1
    /\ product_tickets = 2
    /\ \E k \in 1..2 :
          /\ NonEmptyStates(k)
          /\ "Awaiting Prioritization" \in DOMAIN StatesOf(k)
          /\ RawIn(k, "Awaiting Prioritization") = 0

=============================================================================
